---------------------------- MODULE Spec2Model ----------------------------
(***************************************************************************)
(* Model of the Semantic-Search core: search_engine.py (search,            *)
(* add_document), database_manager.py (the Qdrant gateway), model_loader.py*)
(* (lazy singletons, encoders) and ingestion.py (load_data, ingest).       *)
(*                                                                         *)
(* The specifications share the variables:                                 *)
(*   Spec        sequential requests: ensure_collection, search,           *)
(*               add_document against one Qdrant store;                    *)
(*   SpecLoader  threads racing through the three lazy singleton getters;  *)
(*   SpecIngest  one run of ingestion.ingest, statement by statement;      *)
(*   SpecEncode  encode_dense over backends of several native widths;      *)
(*   SpecApp     app.py: the startup (lifespan), then search requests;     *)
(*   SpecScroll  get_all_points, page by page, over large collections;     *)
(*   SpecCore    the requests of Spec with get_all_points and health;      *)
(*   SpecMode    search over any mode string and any configured default.   *)
(*                                                                         *)
(* Python values: an Optional argument is <<>> (None) or <<v>>; a dense    *)
(* vector is [num, den2], standing for num / sqrt(den2), so that           *)
(* normalisation, slicing and re-normalisation are exact over integers; a  *)
(* score is [n, d2], standing for n / sqrt(d2).                            *)
(***************************************************************************)
EXTENDS Integers, Sequences, FiniteSets, TLC

VARIABLES
    collections,    \* the Qdrant store: a sequence of collections
    createdByCore,  \* names of the collections created by ensure_collection
    client,         \* database_manager._client   (0 is None)
    dense_model,    \* model_loader._dense_model  (0 is None)
    sparse_model,   \* model_loader._sparse_model (0 is None)
    constructed,    \* per singleton: how many instances were constructed
    issued,         \* the uuids uuid4() has returned so far
    use_tei,        \* config.USE_TEI, read from the environment at import
    last,           \* the last completed request of Spec, with its outcome
    tpc, tsel, tgot, tcalls,   \* SpecLoader: per thread pc, getter, result, calls
    ipc, iargs, records, total, start, iret, ilog,  \* SpecIngest: the run of ingest
    ibatches,       \* SpecIngest: the batches the loop has processed
    native_dim,     \* the width of the vectors the dense backend produces
    lexical_ok,     \* whether fastembed's SparseTextEmbedding can be loaded
    cfg_mode,       \* config.SEARCH_MODE as deployed
    apc,            \* app.py: "boot", "serving" or "failed"
    spc, sargs, all_points, offset,  \* get_all_points: pc, limit, result, cursor
    epc, etexts, eout                \* SpecEncode: pc, the texts and the vectors returned

vars == <<collections, createdByCore, client, dense_model, sparse_model,
          constructed, issued, use_tei, last, tpc, tsel, tgot, tcalls,
          ipc, iargs, records, total, start, iret, ilog, ibatches,
          native_dim, lexical_ok, cfg_mode, apc,
          spc, sargs, all_points, offset, epc, etexts, eout>>

loaderVars == <<tpc, tsel, tgot, tcalls>>
ingestVars == <<ipc, iargs, records, total, start, iret, ilog, ibatches>>
envVars == <<native_dim, lexical_ok, cfg_mode, apc>>
scrollVars == <<spc, sargs, all_points, offset>>
encodeVars == <<epc, etexts, eout>>
auxVars == <<envVars, scrollVars, encodeVars>>

(***************************************************************************)
(* Bounds of the model.                                                    *)
(***************************************************************************)
MaxAdds == 2          \* add_document calls per behaviour
SnapshotPoints == 6   \* records of the restored snapshot collection
NThreads == 2         \* threads calling the getters (SpecLoader)
MaxCalls == 2         \* getter calls per thread (SpecLoader)
MaxRows == 3          \* rows of an ingested file (SpecIngest)

(***************************************************************************)
(* config.py                                                               *)
(***************************************************************************)
COLLECTION_NAME == "products"
\* config.EMBEDDING_DIM is 512; the model scales the width down to 2 and the
\* backend's native width (bge-m3: 1024) to NativeDim.
EMBEDDING_DIM == 2
NativeDim == 3
BATCH_SIZE == 32
TOP_K == 5
SEARCH_MODE == "sparse"

None == <<>>
Some(v) == <<v>>

\* Python truthiness of an Optional[int] / Optional[str]: `x or default`.
OrInt(x, default) == IF x = None \/ x[1] = 0 THEN default ELSE x[1]
OrStr(x, default) == IF x = None \/ x[1] = "" THEN default ELSE x[1]

(***************************************************************************)
(* Texts: sequences of tokens.                                             *)
(***************************************************************************)
Texts == { <<"gloves">>, <<"warm">>, <<"warm", "gloves">> }

Count(text, tok) == Cardinality({i \in DOMAIN text : text[i] = tok})

RECURSIVE SumSq(_)
SumSq(v) == IF v = <<>> THEN 0 ELSE v[1] * v[1] + SumSq(Tail(v))

RECURSIVE Dot(_, _)
Dot(a, b) == IF a = <<>> \/ b = <<>> THEN 0
             ELSE a[1] * b[1] + Dot(Tail(a), Tail(b))


(***************************************************************************)
(* Vectors.  One record shape for both kinds, so that they can be compared.*)
(***************************************************************************)
NoVec == [kind |-> "none", num |-> <<>>, den2 |-> 0, indices |-> <<>>, values |-> <<>>]
DenseVec(num, den2) ==
    [kind |-> "dense", num |-> num, den2 |-> den2, indices |-> <<>>, values |-> <<>>]
SparseVector(indices, values) ==
    [kind |-> "sparse", num |-> <<>>, den2 |-> 0, indices |-> indices, values |-> values]

\* A dense vector has unit L2 norm iff the squares of num sum to den2.
IsUnit(v) == v.kind = "dense" /\ SumSq(v.num) = v.den2

(***************************************************************************)
(* model_loader.py: the backends and the encoders.                         *)
(***************************************************************************)
\* The backend (TEI, or SentenceTransformer with normalize_embeddings=True):
\* one unit vector of the native width (native_dim) per text.  The direction counts the
\* tokens; the constant last component keeps it away from zero.
RawDir(text) ==
    [i \in 1..native_dim |->
        IF i = 1 THEN 1 + Count(text, "warm")
        ELSE IF i = 2 THEN 1 + Count(text, "gloves")
        ELSE 1]

Embed(text) == DenseVec(RawDir(text), SumSq(RawDir(text)))

\* embeddings[:, :EMBEDDING_DIM]; norms = ||.||; embeddings / norms.
\* The slice keeps den2; its squared norm is SumSq(num) / den2; dividing by
\* the norm multiplies den2 by that squared norm.
Slice(v) == DenseVec(SubSeq(v.num, 1, EMBEDDING_DIM), v.den2)
DivideByNorm(v) == DenseVec(v.num, (v.den2 * SumSq(v.num)) \div v.den2)

Truncate(v) ==
    IF Len(v.num) > EMBEDDING_DIM THEN DivideByNorm(Slice(v)) ELSE v

\* encode_dense(texts): one vector per text, in order.
encode_dense(texts) == [i \in DOMAIN texts |-> Truncate(Embed(texts[i]))]

\* Qdrant/bm25 of fastembed: one index per distinct token, in order of first
\* occurrence, weighted by the token's frequency.
TokenId(tok) == IF tok = "warm" THEN 11 ELSE 22

RECURSIVE Distinct(_)
Distinct(text) ==
    IF text = <<>> THEN <<>>
    ELSE LET init == Distinct(SubSeq(text, 1, Len(text) - 1))
             tok  == text[Len(text)]
         IN  IF \E i \in DOMAIN init : init[i] = tok THEN init ELSE Append(init, tok)

encode_sparse(text) ==
    LET toks == Distinct(text)
    IN  SparseVector([i \in DOMAIN toks |-> TokenId(toks[i])],
                     [i \in DOMAIN toks |-> Count(text, toks[i])])

\* A getter called with no other thread around: `if _x is None: _x = X()`.
\* cur is the global, n the number of instances constructed so far.
GetSingleton(cur, n) ==
    IF cur = 0 THEN [inst |-> n + 1, n |-> n + 1] ELSE [inst |-> cur, n |-> n]

(***************************************************************************)
(* The Qdrant store, as database_manager.py uses it.                       *)
(***************************************************************************)
Names(colls) == {colls[i].name : i \in DOMAIN colls}

Collection(colls, name) == colls[CHOOSE i \in DOMAIN colls : colls[i].name = name]

VectorParams(size, distance) == [size |-> size, distance |-> distance]

\* client.create_collection: the store refuses a name it already holds.
create_collection(colls, name, vectors_config, sparse_vectors_config) ==
    IF name \in Names(colls)
    THEN [ok |-> FALSE, colls |-> colls]
    ELSE [ok |-> TRUE,
          colls |-> Append(colls, [name |-> name,
                                   vectors |-> vectors_config,
                                   sparse_vectors |-> sparse_vectors_config,
                                   points |-> <<>>])]

\* Scores n / sqrt(d2) with n >= 0: s >= t.
ScoreGE(s, t) == s.n * s.n * t.d2 >= t.n * t.n * s.d2

\* Cosine similarity of a stored dense vector and a dense query.
Cosine(a, q) == [n |-> Dot(a.num, q.num), d2 |-> SumSq(a.num) * SumSq(q.num)]

\* Sparse dot product over the indices the two vectors share.
SparseDot(a, q) ==
    LET common == {<<i, j>> \in (DOMAIN a.indices) \X (DOMAIN q.indices) :
                      a.indices[i] = q.indices[j]}
        RECURSIVE Sum(_)
        Sum(S) == IF S = {} THEN 0
                  ELSE LET p == CHOOSE x \in S : TRUE
                       IN  a.values[p[1]] * q.values[p[2]] + Sum(S \ {p})
    IN  [n |-> Sum(common), d2 |-> 1]

Overlaps(a, q) ==
    \E i \in DOMAIN a.indices : \E j \in DOMAIN q.indices : a.indices[i] = q.indices[j]

\* The scored points ordered by score, highest first; ties in the store's
\* own order (the position of the point).  S is a set of [pos, hit].
RECURSIVE Ranked(_)
Ranked(S) ==
    IF S = {} THEN <<>>
    ELSE LET best == CHOOSE x \in S : \A y \in S :
                        /\ ScoreGE(x.hit.score, y.hit.score)
                        /\ (ScoreGE(y.hit.score, x.hit.score) => x.pos <= y.pos)
         IN  <<best.hit>> \o Ranked(S \ {best})

Min(a, b) == IF a <= b THEN a ELSE b

Take(seq, n) == SubSeq(seq, 1, Min(n, Len(seq)))

\* client.query_points(collection_name, query, using, limit).  The store
\* rejects an unknown collection, a vector name the collection does not
\* declare, a limit below 1 and a dense query of the wrong width.  A sparse
\* query matches only the points that share an index with it.
query_points(colls, name, query, using, limit) ==
    IF name \notin Names(colls) THEN [ok |-> FALSE, points |-> <<>>]
    ELSE
    LET c == Collection(colls, name)
        isDense  == using \in DOMAIN c.vectors
        isSparse == using \in c.sparse_vectors
    IN  IF \/ ~(isDense \/ isSparse)
           \/ limit < 1
           \/ isDense /\ (query.kind # "dense" \/ Len(query.num) # c.vectors[using].size)
           \/ isSparse /\ query.kind # "sparse"
        THEN [ok |-> FALSE, points |-> <<>>]
        ELSE
        LET pts   == c.points
            cands == {i \in DOMAIN pts :
                        /\ using \in DOMAIN pts[i].vector
                        /\ isSparse => Overlaps(pts[i].vector[using], query)}
            scored == {[pos |-> i,
                        hit |-> [id |-> pts[i].id,
                                 score |-> IF isDense
                                           THEN Cosine(pts[i].vector[using], query)
                                           ELSE SparseDot(pts[i].vector[using], query),
                                 payload |-> pts[i].payload]] : i \in cands}
        IN  [ok |-> TRUE, points |-> Take(Ranked(scored), limit)]

PointStruct(id, vector, payload) == [id |-> id, vector |-> vector, payload |-> payload]

\* client.upsert(collection_name, points=[point]): writes or overwrites by
\* id.  The store rejects an unknown collection, a vector name the
\* collection does not declare and a dense vector of the wrong width.
upsert(colls, name, point) ==
    IF name \notin Names(colls) THEN [ok |-> FALSE, colls |-> colls]
    ELSE
    LET k == CHOOSE i \in DOMAIN colls : colls[i].name = name
        c == colls[k]
        declared == (DOMAIN c.vectors) \cup c.sparse_vectors
        fits == \A f \in DOMAIN point.vector :
                  /\ f \in declared
                  /\ f \in DOMAIN c.vectors =>
                        /\ point.vector[f].kind = "dense"
                        /\ Len(point.vector[f].num) = c.vectors[f].size
                  /\ f \in c.sparse_vectors => point.vector[f].kind = "sparse"
        pts == c.points
        newpts == IF \E i \in DOMAIN pts : pts[i].id = point.id
                  THEN [i \in DOMAIN pts |-> IF pts[i].id = point.id THEN point ELSE pts[i]]
                  ELSE Append(pts, point)
    IN  IF ~fits THEN [ok |-> FALSE, colls |-> colls]
        ELSE [ok |-> TRUE, colls |-> [colls EXCEPT ![k].points = newpts]]


(***************************************************************************)
(* database_manager.py                                                     *)
(***************************************************************************)
\* str(hit.id), str(uuid.uuid4()): ids are opaque tokens of the model, and
\* the string form of a token is the token.
Str(id) == id

Call(fn, text, using, limit, vec) ==
    [fn |-> fn, text |-> text, using |-> using, limit |-> limit, vec |-> vec]

Hits(points) ==
    [i \in DOMAIN points |->
        [id |-> Str(points[i].id), score |-> points[i].score, payload |-> points[i].payload]]

\* search(query_vector, top_k): query_points(..., using="text", limit=k).
db_search(colls, query_vector, top_k) ==
    LET k == OrInt(top_k, TOP_K)
        r == query_points(colls, COLLECTION_NAME, query_vector, "text", k)
    IN  [ok |-> r.ok, results |-> Hits(r.points), hits |-> r.points,
         call |-> Call("query_points", <<>>, "text", k, query_vector)]

\* search_sparse(query_sparse, top_k): query_points(..., using="bm25", limit=k).
search_sparse(colls, query_sparse, top_k) ==
    LET k == OrInt(top_k, TOP_K)
        r == query_points(colls, COLLECTION_NAME, query_sparse, "bm25", k)
    IN  [ok |-> r.ok, results |-> Hits(r.points), hits |-> r.points,
         call |-> Call("query_points", <<>>, "bm25", k, query_sparse)]

\* Mutant of add_single: the legacy dense-only write.
add_single_denseOnly(colls, uid, text, dense_vector, sparse_vector) ==
    LET point == PointStruct(uid, "text" :> dense_vector, [text |-> text])
        r == upsert(colls, COLLECTION_NAME, point)
    IN  [ok |-> r.ok, colls |-> r.colls, uid |-> uid,
         call |-> Call("upsert", text, "text", 1, dense_vector)]

\* Writes the new document under the id of the first stored point.
add_single_overwrite(colls, uid, text, dense_vector, sparse_vector) ==
    LET pts == IF COLLECTION_NAME \in Names(colls)
               THEN Collection(colls, COLLECTION_NAME).points ELSE <<>>
        id  == IF pts = <<>> THEN uid ELSE pts[1].id
        point == PointStruct(id,
                             ("text" :> dense_vector) @@ ("bm25" :> sparse_vector),
                             [text |-> text])
        r == upsert(colls, COLLECTION_NAME, point)
    IN  [ok |-> r.ok, colls |-> r.colls, uid |-> id,
         call |-> Call("upsert", text, "text+bm25", 1, dense_vector)]

\* add_single(text, dense_vector, sparse_vector) with uid = str(uuid4()).
add_single(colls, uid, text, dense_vector, sparse_vector) ==
    LET point == PointStruct(uid,
                             ("text" :> dense_vector) @@ ("bm25" :> sparse_vector),
                             [text |-> text])
        r == upsert(colls, COLLECTION_NAME, point)
    IN  [ok |-> r.ok, colls |-> r.colls, uid |-> uid,
         call |-> Call("upsert", text, "text+bm25", 1, dense_vector)]

\* ensure_collection(): the vectors_config and sparse_vectors_config it
\* passes to create_collection.
EnsureVectorsConfig == "text" :> VectorParams(EMBEDDING_DIM, "Cosine")
EnsureSparseConfig == {}

\* Mutant of ensure_collection: creates without looking at the list.
ensure_collection_noCheck(colls) ==
    LET r == create_collection(colls, COLLECTION_NAME,
                               EnsureVectorsConfig, EnsureSparseConfig)
    IN  [ok |-> r.ok, colls |-> r.colls, created |-> r.ok]

\* ensure_collection(): create the collection unless its name is listed.
ensure_collection(colls) ==
    IF COLLECTION_NAME \notin Names(colls)
    THEN LET r == create_collection(colls, COLLECTION_NAME,
                                    EnsureVectorsConfig, EnsureSparseConfig)
         IN  [ok |-> r.ok, colls |-> r.colls, created |-> r.ok]
    ELSE [ok |-> TRUE, colls |-> colls, created |-> FALSE]

(***************************************************************************)
(* search_engine.py                                                        *)
(***************************************************************************)
\* Mutant of search: branches on the mode argument as given, without the
\* configured default.
search_noDefault(colls, query, top_k, mode) ==
    LET k == OrInt(top_k, TOP_K)
    IN  IF mode = Some("sparse")
        THEN LET sparse_vec == encode_sparse(query)
                 r == search_sparse(colls, sparse_vec, Some(k))
             IN  [ok |-> r.ok,
                  results |-> IF r.ok THEN r.results ELSE <<>>,
                  vec |-> IF r.ok THEN sparse_vec ELSE NoVec,
                  hits |-> r.hits,
                  calls |-> <<Call("encode_sparse", query, "", 0, NoVec), r.call>>]
        ELSE LET dense_vec == encode_dense(<<query>>)[1]
                 r == db_search(colls, dense_vec, Some(k))
             IN  [ok |-> r.ok,
                  results |-> IF r.ok THEN r.results ELSE <<>>,
                  vec |-> IF r.ok THEN dense_vec ELSE NoVec,
                  hits |-> r.hits,
                  calls |-> <<Call("encode_dense", query, "", 0, NoVec), r.call>>]

\* Accepts "dense" and "sparse" only, and raises on any other mode.
search_strictModes(colls, query, top_k, mode) ==
    LET m == OrStr(mode, cfg_mode)
    IN  IF m \in {"dense", "sparse"}
        THEN search_noDefault(colls, query, top_k, Some(m))
        ELSE [ok |-> FALSE, results |-> <<>>, vec |-> NoVec, hits |-> <<>>,
              calls |-> <<>>]

\* search(query, top_k, mode): what it returns or that it raised, and the
\* encoder and store calls it made, in order.
search(colls, query, top_k, mode) ==
    LET m == OrStr(mode, cfg_mode)
        k == OrInt(top_k, TOP_K)
    IN  IF m = "sparse"
        THEN LET sparse_vec == encode_sparse(query)
                 r == search_sparse(colls, sparse_vec, Some(k))
             IN  [ok |-> r.ok,
                  results |-> IF r.ok THEN r.results ELSE <<>>,
                  vec |-> IF r.ok THEN sparse_vec ELSE NoVec,
                  hits |-> r.hits,
                  calls |-> <<Call("encode_sparse", query, "", 0, NoVec), r.call>>]
        ELSE LET dense_vec == encode_dense(<<query>>)[1]
                 r == db_search(colls, dense_vec, Some(k))
             IN  [ok |-> r.ok,
                  results |-> IF r.ok THEN r.results ELSE <<>>,
                  vec |-> IF r.ok THEN dense_vec ELSE NoVec,
                  hits |-> r.hits,
                  calls |-> <<Call("encode_dense", query, "", 0, NoVec), r.call>>]

\* add_document(text) with the uuid that add_single draws.
add_document(colls, uid, text) ==
    LET dense  == encode_dense(<<text>>)[1]
        sparse == encode_sparse(text)
        r == add_single(colls, uid, text, dense, sparse)
    IN  [ok |-> r.ok, colls |-> r.colls, uid |-> r.uid,
         calls |-> <<Call("encode_dense", text, "", 0, NoVec),
                     Call("encode_sparse", text, "", 0, NoVec), r.call>>]

(***************************************************************************)
(* Spec: requests served one after the other.                              *)
(***************************************************************************)
Modes == {None, Some("dense"), Some("sparse"), Some("hybrid")}
TopKs == {None, Some(-1), Some(0), Some(1), Some(5)}
Uuids == 101..(100 + MaxAdds)

TextSeq == << <<"gloves">>, <<"warm">>, <<"warm", "gloves">> >>

\* A collection restored from the snapshot: both named vectors, n records
\* written with this core's encoders.
SnapshotCollection(n) ==
    [name |-> COLLECTION_NAME,
     vectors |-> "text" :> VectorParams(EMBEDDING_DIM, "Cosine"),
     sparse_vectors |-> {"bm25"},
     points |-> [i \in 1..n |->
                   LET t == TextSeq[((i - 1) % 3) + 1]
                   IN  PointStruct(i, ("text" :> encode_dense(<<t>>)[1])
                                      @@ ("bm25" :> encode_sparse(t)),
                                   [text |-> t])]]

OtherCollection ==
    [name |-> "other", vectors |-> "text" :> VectorParams(EMBEDDING_DIM, "Cosine"),
     sparse_vectors |-> {}, points |-> <<>>]

NoRequest ==
    [op |-> "none", text |-> <<>>, top_k |-> None, mode |-> None, ok |-> TRUE,
     results |-> <<>>, hits |-> <<>>, vec |-> NoVec, uid |-> 0, calls |-> <<>>,
     before |-> <<>>, streak |-> 0, count |-> 0]

LoaderIdle ==
    /\ tpc = <<>> /\ tsel = <<>> /\ tgot = <<>> /\ tcalls = <<>>

NoReturn == [value |-> None, error |-> ""]

IngestIdle ==
    /\ ipc = "idle" /\ iargs = <<>> /\ records = <<>> /\ total = 0
    /\ start = 0 /\ iret = NoReturn /\ ilog = <<>> /\ ibatches = <<>>

\* The deployment the requests of Spec run in: the configuration of
\* config.py, a backend wider than EMBEDDING_DIM, fastembed installed, the
\* application started.
EnvDefault ==
    /\ native_dim = NativeDim /\ lexical_ok = TRUE
    /\ cfg_mode = SEARCH_MODE /\ apc = "serving"

ScrollIdle ==
    /\ spc = "idle" /\ sargs = [limit |-> 0, pages |-> <<>>]
    /\ all_points = <<>> /\ offset = None

EncodeIdle ==
    /\ epc = "idle" /\ etexts = <<>> /\ eout = <<>>

Init ==
    /\ EnvDefault /\ ScrollIdle /\ EncodeIdle
    /\ collections \in { <<>>, <<OtherCollection>>,
                         <<OtherCollection, SnapshotCollection(SnapshotPoints)>> }
    /\ createdByCore = {}
    /\ client = 0 /\ dense_model = 0 /\ sparse_model = 0
    /\ constructed = [client |-> 0, dense |-> 0, sparse |-> 0]
    /\ issued = {}
    /\ use_tei \in BOOLEAN
    /\ last = NoRequest
    /\ LoaderIdle
    /\ IngestIdle

\* The globals after a request that called the getters in `used`.
Loaded(used) ==
    LET c == GetSingleton(client, constructed.client)
        d == GetSingleton(dense_model, constructed.dense)
        s == GetSingleton(sparse_model, constructed.sparse)
    IN  /\ client' = IF "client" \in used THEN c.inst ELSE client
        /\ dense_model' = IF "dense" \in used THEN d.inst ELSE dense_model
        /\ sparse_model' = IF "sparse" \in used THEN s.inst ELSE sparse_model
        /\ constructed' = [client |-> IF "client" \in used THEN c.n ELSE constructed.client,
                           dense  |-> IF "dense" \in used THEN d.n ELSE constructed.dense,
                           sparse |-> IF "sparse" \in used THEN s.n ELSE constructed.sparse]

\* The getters a dense encode goes through: none with the TEI backend.
DenseGetters == IF use_tei THEN {} ELSE {"dense"}

EnsureCollection ==
    \E r \in {ensure_collection(collections)} :
        /\ collections' = r.colls
        /\ createdByCore' = IF r.created THEN createdByCore \cup {COLLECTION_NAME}
                            ELSE createdByCore
        /\ Loaded({"client"})
        /\ last' = [NoRequest EXCEPT !.op = "ensure_collection", !.ok = r.ok,
                                     !.before = collections,
                                     !.streak = Min(last.streak + 1, 2)]
        /\ UNCHANGED <<issued, use_tei, loaderVars, ingestVars, auxVars>>

\* POST /search with one request body.
DoSearch(query, top_k, mode) ==
        \E r \in {search(collections, query, top_k, mode)} :
            /\ Loaded({"client"} \cup
                      (IF OrStr(mode, cfg_mode) = "sparse" THEN {"sparse"}
                       ELSE DenseGetters))
            /\ last' = [NoRequest EXCEPT !.op = "search", !.text = query,
                                         !.top_k = top_k, !.mode = mode, !.ok = r.ok,
                                         !.results = r.results, !.hits = r.hits,
                                         !.vec = r.vec, !.calls = r.calls,
                                         !.before = collections]
            /\ UNCHANGED <<collections, createdByCore, issued, use_tei,
                           loaderVars, ingestVars, auxVars>>

Search ==
    \E query \in Texts, top_k \in TopKs, mode \in Modes : DoSearch(query, top_k, mode)

\* uuid.uuid4(): a value it has never returned before.
uuid4(used) == CHOOSE u \in Uuids \ used : \A w \in Uuids \ used : u <= w

AddDocument ==
    /\ Cardinality(issued) < MaxAdds
    /\ \E text \in Texts, uid \in {uuid4(issued)} :
        \E r \in {add_document(collections, Str(uid), text)} :
            /\ collections' = r.colls
            /\ issued' = issued \cup {uid}
            /\ Loaded({"client", "sparse"} \cup DenseGetters)
            /\ last' = [NoRequest EXCEPT !.op = "add_document", !.text = text,
                                         !.ok = r.ok,
                                         !.uid = IF r.ok THEN r.uid ELSE 0,
                                         !.calls = r.calls,
                                         !.before = collections]
            /\ UNCHANGED <<createdByCore, use_tei, loaderVars, ingestVars, auxVars>>

Next == EnsureCollection \/ Search \/ AddDocument

Spec == Init /\ [][Next]_vars


(***************************************************************************)
(* Properties of Spec.                                                     *)
(***************************************************************************)
Points(colls) ==
    IF COLLECTION_NAME \in Names(colls) THEN Collection(colls, COLLECTION_NAME).points
    ELSE <<>>

Ids(points) == {points[i].id : i \in DOMAIN points}

EncoderCalls(calls) ==
    {calls[i].fn : i \in DOMAIN calls} \cap {"encode_dense", "encode_sparse"}

StoreCalls(calls) ==
    {i \in DOMAIN calls : calls[i].fn \in {"query_points", "upsert"}}

NonIncreasing(results) ==
    \A i \in DOMAIN results : \A j \in DOMAIN results :
        i < j => ScoreGE(results[i].score, results[j].score)

\* C1: a search with top_k <= 0 is rejected as invalid input, and neither
\* encoder nor any store query is invoked.
C1_NonPositiveTopKRejected ==
    (last.op = "search" /\ last.top_k # None /\ last.top_k[1] <= 0)
        => (~last.ok /\ last.calls = <<>>)

\* C2: search(q, top_k=k) returns at most k results (k = 5 when top_k is
\* not supplied), in non-increasing score order, exactly as the store
\* returned them.
C2_AtMostKSorted ==
    (last.op = "search" /\ last.ok)
        => /\ Len(last.results) <= (IF last.top_k = None THEN 5 ELSE last.top_k[1])
           /\ NonIncreasing(last.results)
           /\ last.results = last.hits

\* The part of C2 that the code keeps: for top_k >= 1 or absent.
C2_ValidTopK ==
    (last.op = "search" /\ last.ok /\ (last.top_k = None \/ last.top_k[1] >= 1))
        => /\ Len(last.results) <= (IF last.top_k = None THEN 5 ELSE last.top_k[1])
           /\ NonIncreasing(last.results)
           /\ last.results = last.hits

\* C3: search routes by mode.  Absent mode is the configured default;
\* "sparse" calls only the lexical encoder and queries only the lexical
\* field "bm25"; "dense" calls only the dense encoder and queries only the
\* dense field "text"; the vector returned is the one the store was queried
\* with.
C3_RoutesByMode ==
    last.op = "search" =>
        LET m == IF last.mode = None THEN SEARCH_MODE ELSE last.mode[1]
            fields == {last.calls[i].using : i \in StoreCalls(last.calls)}
        IN  /\ m = "sparse" =>
                  /\ EncoderCalls(last.calls) = {"encode_sparse"}
                  /\ fields = {"bm25"}
                  /\ \A i \in StoreCalls(last.calls) :
                        last.calls[i].vec = encode_sparse(last.text)
            /\ m = "dense" =>
                  /\ EncoderCalls(last.calls) = {"encode_dense"}
                  /\ fields = {"text"}
                  /\ \A i \in StoreCalls(last.calls) :
                        last.calls[i].vec = encode_dense(<<last.text>>)[1]
            /\ last.ok =>
                  /\ last.vec # NoVec
                  /\ \A i \in StoreCalls(last.calls) : last.calls[i].vec = last.vec

\* A search with no mode given answered from the lexical field.
C3_Witness ==
    /\ last.op = "search" /\ last.mode = None /\ last.ok
    /\ Len(last.results) > 0
    /\ last.vec.kind = "sparse"

\* C4: a successful add_document(text) appends exactly one record, under an
\* id not present before, holding the dense and the sparse vector of text
\* and text as payload, and returns that id; nothing else changes.
C4_AddDocumentAddsOne ==
    (last.op = "add_document" /\ last.ok) =>
        LET old == Points(last.before)
            new == Points(collections)
            p   == new[Len(new)]
        IN  /\ Len(new) = Len(old) + 1
            /\ SubSeq(new, 1, Len(old)) = old
            /\ last.uid \notin Ids(old)
            /\ p.id = last.uid
            /\ DOMAIN p.vector = {"text", "bm25"}
            /\ p.vector["text"] = encode_dense(<<last.text>>)[1]
            /\ p.vector["bm25"] = encode_sparse(last.text)
            /\ p.payload = [text |-> last.text]
            /\ Len(collections) = Len(last.before)
            /\ \A i \in DOMAIN collections :
                  collections[i].name # COLLECTION_NAME
                      => collections[i] = last.before[i]

\* The second add_document into a populated collection.
C4_Witness ==
    /\ last.op = "add_document" /\ last.ok
    /\ Len(Points(last.before)) > SnapshotPoints
    /\ Len(Points(collections)) = Len(Points(last.before)) + 1

\* C5: the collection ensure_collection creates declares the dense field
\* "text" (dimension EMBEDDING_DIM, cosine) and the sparse field "bm25",
\* the names add_single writes and search / search_sparse query.
C5_CreatedSchemaComplete ==
    \A i \in DOMAIN collections :
        collections[i].name \in createdByCore =>
            /\ "text" \in DOMAIN collections[i].vectors
            /\ collections[i].vectors["text"] = VectorParams(EMBEDDING_DIM, "Cosine")
            /\ "bm25" \in collections[i].sparse_vectors

\* C6: ensure_collection never raises, leaves exactly one collection of the
\* configured name, and called a second time in a row changes nothing.
C6_EnsureIdempotent ==
    last.op = "ensure_collection" =>
        /\ last.ok
        /\ Cardinality({i \in DOMAIN collections :
                           collections[i].name = COLLECTION_NAME}) = 1
        /\ last.streak = 2 => collections = last.before

\* Two calls in a row, the first of which created the collection.
C6_Witness ==
    /\ last.op = "ensure_collection" /\ last.streak = 2 /\ last.ok
    /\ COLLECTION_NAME \in createdByCore

\* q is t or one of the terms of t.
IsTermOf(q, t) == q = t \/ (Len(q) = 1 /\ \E i \in DOMAIN t : t[i] = q[1])

\* C7: on an empty collection set up by ensure_collection, add_document(t)
\* returns an id, and the search that follows for t or one of its terms
\* with top_k = 5, sparse or dense, returns exactly the record of that id.
C7_AddThenSearch ==
    /\ (/\ last.op = "add_document"
        /\ COLLECTION_NAME \in createdByCore
        /\ Points(last.before) = <<>>)
          => (last.ok /\ last.uid \in Ids(Points(collections)))
    /\ (/\ last.op = "search"
        /\ COLLECTION_NAME \in createdByCore
        /\ Len(Points(collections)) = 1
        /\ last.top_k = Some(5)
        /\ last.mode \in {Some("sparse"), Some("dense")}
        /\ IsTermOf(last.text, Points(collections)[1].payload.text))
          => (/\ last.ok
              /\ Len(last.results) = 1
              /\ last.results[1].id = Points(collections)[1].id)


(***************************************************************************)
(* SpecLoader: threads calling get_client, get_dense_model and             *)
(* get_sparse_model.  Each getter is `if _x is None: _x = X()` followed by  *)
(* `return _x`, with no lock: the test, the construction with its          *)
(* assignment, and the read of the global for the return are separate      *)
(* steps of a thread (the constructors load a model or open a connection   *)
(* and release the interpreter lock while they do).                        *)
(***************************************************************************)
Threads == 1..NThreads
Getters == {"client", "dense", "sparse"}

Global(g) == IF g = "client" THEN client
             ELSE IF g = "dense" THEN dense_model ELSE sparse_model

SetGlobal(g, v) ==
    /\ client' = IF g = "client" THEN v ELSE client
    /\ dense_model' = IF g = "dense" THEN v ELSE dense_model
    /\ sparse_model' = IF g = "sparse" THEN v ELSE sparse_model

storeVars == <<collections, createdByCore, issued, use_tei, last>>

InitLoader ==
    /\ EnvDefault /\ ScrollIdle /\ EncodeIdle
    /\ collections = <<>>
    /\ createdByCore = {}
    /\ client = 0 /\ dense_model = 0 /\ sparse_model = 0
    /\ constructed = [client |-> 0, dense |-> 0, sparse |-> 0]
    /\ issued = {}
    /\ use_tei = FALSE
    /\ last = NoRequest
    /\ tpc = [t \in Threads |-> "idle"]
    /\ tsel = [t \in Threads |-> "client"]
    /\ tgot = [t \in Threads |-> [g \in Getters |-> 0]]
    /\ tcalls = [t \in Threads |-> 0]
    /\ IngestIdle

\* `if _x is None:` evaluated by thread t entering getter g.
GetterTest(t, g) ==
    /\ tpc[t] = "idle"
    /\ tcalls[t] < MaxCalls
    /\ tsel' = [tsel EXCEPT ![t] = g]
    /\ tcalls' = [tcalls EXCEPT ![t] = @ + 1]
    /\ tpc' = [tpc EXCEPT ![t] = IF Global(g) = 0 THEN "construct" ELSE "return"]
    /\ UNCHANGED <<client, dense_model, sparse_model, constructed, tgot,
                   storeVars, ingestVars, auxVars>>

\* `_x = X()`: a new instance is constructed and assigned to the global.
GetterConstruct(t) ==
    /\ tpc[t] = "construct"
    /\ constructed' = [constructed EXCEPT ![tsel[t]] = @ + 1]
    /\ SetGlobal(tsel[t], constructed[tsel[t]] + 1)
    /\ tpc' = [tpc EXCEPT ![t] = "return"]
    /\ UNCHANGED <<tsel, tgot, tcalls, storeVars, ingestVars, auxVars>>

\* `return _x`: the caller obtains what the global holds now.
GetterReturn(t) ==
    /\ tpc[t] = "return"
    /\ tgot' = [tgot EXCEPT ![t][tsel[t]] = Global(tsel[t])]
    /\ tpc' = [tpc EXCEPT ![t] = "idle"]
    /\ UNCHANGED <<client, dense_model, sparse_model, constructed, tsel, tcalls,
                   storeVars, ingestVars, auxVars>>

NextLoader ==
    \/ \E t \in Threads, g \in Getters : GetterTest(t, g)
    \/ \E t \in Threads : GetterConstruct(t)
    \/ \E t \in Threads : GetterReturn(t)

SpecLoader == InitLoader /\ [][NextLoader]_vars

\* C8: under any interleaving of concurrent first calls, each singleton is
\* constructed exactly once and all callers obtain the same instance.
C8_ExactlyOnceInit ==
    \A g \in Getters :
        /\ constructed[g] <= 1
        /\ \A t \in Threads, u \in Threads :
              (tgot[t][g] # 0 /\ tgot[u][g] # 0) => tgot[t][g] = tgot[u][g]


(***************************************************************************)
(* ingestion.py.  A file is its type, whether a JSON file holds a list,    *)
(* whether a CSV file has the text column, and its rows: "text" for a row  *)
(* with the text field, "missing" for a JSON object without the key or a   *)
(* CSV row with an empty cell in the column.                               *)
(***************************************************************************)
RowKinds == {"text", "missing"}

RECURSIVE SeqsUpTo(_, _)
SeqsUpTo(S, n) ==
    IF n = 0 THEN {<<>>}
    ELSE LET shorter == SeqsUpTo(S, n - 1)
         IN  shorter \cup {Append(q, x) : q \in shorter, x \in S}

Files ==
    [kind : {"json"}, is_list : BOOLEAN, has_column : {TRUE},
     rows : SeqsUpTo(RowKinds, MaxRows)]
    \cup [kind : {"csv"}, is_list : {TRUE}, has_column : BOOLEAN,
          rows : SeqsUpTo(RowKinds, MaxRows)]
    \cup [kind : {"other"}, is_list : {TRUE}, has_column : {TRUE}, rows : {<<>>}]

BatchSizes == {None, Some(0), Some(1), Some(2), Some(-1)}

\* The names model_loader.py defines at module level.
ModelLoaderAttrs ==
    {"get_dense_model", "get_sparse_model", "encode_dense", "encode_sparse"}

RECURSIVE KeptRows(_, _)
\* df.dropna(subset=[text_field]): the positions of the rows that have a
\* value in the column, in order.
KeptRows(rows, i) ==
    IF i > Len(rows) THEN <<>>
    ELSE (IF rows[i] = "text" THEN <<i>> ELSE <<>>) \o KeptRows(rows, i + 1)

\* load_data(file_path, text_field): the records (positions of the rows
\* loaded), or the ValueError it raises.
load_data(file) ==
    IF file.kind = "json"
    THEN IF file.is_list
         THEN IF \E i \in DOMAIN file.rows : file.rows[i] = "missing"
              THEN [ok |-> FALSE, records |-> <<>>]
              ELSE [ok |-> TRUE, records |-> [i \in DOMAIN file.rows |-> i]]
         ELSE [ok |-> FALSE, records |-> <<>>]
    ELSE IF file.kind = "csv"
    THEN IF ~file.has_column
         THEN [ok |-> FALSE, records |-> <<>>]
         ELSE [ok |-> TRUE, records |-> KeptRows(file.rows, 1)]
    ELSE [ok |-> FALSE, records |-> <<>>]

\* upsert_batch(vectors, payloads, ids): its body is `pass`.
upsert_batch(colls, vectors, payloads) == colls

\* client.get_collection(name).points_count; raises without the collection.
collection_count(colls) ==
    IF COLLECTION_NAME \in Names(colls)
    THEN [ok |-> TRUE, count |-> Len(Collection(colls, COLLECTION_NAME).points)]
    ELSE [ok |-> FALSE, count |-> 0]

\* range(0, total, bs) still has the value start.
InRange(st, tot, bs) == IF bs > 0 THEN st < tot ELSE st > tot

InitIngest ==
    /\ EnvDefault /\ ScrollIdle /\ EncodeIdle
    /\ collections \in { <<>>, <<SnapshotCollection(1)>> }
    /\ createdByCore = {}
    /\ client = 0 /\ dense_model = 0 /\ sparse_model = 0
    /\ constructed = [client |-> 0, dense |-> 0, sparse |-> 0]
    /\ issued = {}
    /\ use_tei \in BOOLEAN
    /\ last = NoRequest
    /\ LoaderIdle
    /\ IngestIdle

\* ingest(file_path, text_field, batch_size) is called:
\* bs = batch_size or config.BATCH_SIZE.
IngestCall ==
    /\ ipc = "idle"
    /\ \E file \in Files, batch_size \in BatchSizes :
          iargs' = [file |-> file, batch_size |-> batch_size,
                    bs |-> OrInt(batch_size, BATCH_SIZE), before |-> collections]
    /\ ipc' = "load"
    /\ UNCHANGED <<records, total, start, iret, ilog, ibatches, client, dense_model,
                   sparse_model, constructed, storeVars, loaderVars, auxVars>>

\* records = load_data(file_path, text_field); total = len(records).
IngestLoad ==
    /\ ipc = "load"
    /\ \E r \in {load_data(iargs.file)} :
          /\ ilog' = Append(ilog, "load_data")
          /\ records' = r.records
          /\ total' = Len(r.records)
          /\ ipc' = IF r.ok THEN "ensure" ELSE "raised"
          /\ iret' = IF r.ok THEN iret ELSE [value |-> None, error |-> "ValueError"]
    /\ UNCHANGED <<iargs, start, ibatches, client, dense_model, sparse_model,
                   constructed, storeVars, loaderVars, auxVars>>

\* database_manager.ensure_collection()
IngestEnsure ==
    /\ ipc = "ensure"
    /\ \E r \in {ensure_collection(collections)} :
          /\ collections' = r.colls
          /\ createdByCore' = IF r.created THEN createdByCore \cup {COLLECTION_NAME}
                              ELSE createdByCore
          /\ ilog' = ilog \o (IF r.created THEN <<"ensure_collection", "create_collection">>
                              ELSE <<"ensure_collection">>)
          /\ ipc' = IF r.ok THEN "loop" ELSE "raised"
          /\ iret' = IF r.ok THEN iret ELSE [value |-> None, error |-> "StoreError"]
    /\ Loaded({"client"})
    /\ start' = 0
    /\ UNCHANGED <<iargs, records, total, ibatches, issued, use_tei, last,
                   loaderVars, auxVars>>

\* One iteration of `for start in range(0, total, bs)`:
\* vectors = model_loader.encode(batch_texts, batch_size=bs), an attribute
\* model_loader does not have; then upsert_batch(vectors, batch_records).
IngestBatch ==
    /\ ipc = "loop"
    /\ InRange(start, total, iargs.bs)
    /\ IF "encode" \in ModelLoaderAttrs
       THEN /\ collections' = upsert_batch(collections, <<>>,
                                           SubSeq(records, start + 1,
                                                  Min(start + iargs.bs, total)))
            /\ ilog' = ilog \o <<"encode", "upsert_batch">>
            /\ ibatches' = Append(ibatches,
                                  SubSeq(records, start + 1,
                                         Min(start + iargs.bs, total)))
            /\ start' = start + iargs.bs
            /\ UNCHANGED <<ipc, iret>>
       ELSE /\ ipc' = "raised"
            /\ iret' = [value |-> None, error |-> "AttributeError"]
            /\ UNCHANGED <<collections, ilog, ibatches, start>>
    /\ UNCHANGED <<iargs, records, total, createdByCore, issued, use_tei, last,
                   client, dense_model, sparse_model, constructed, loaderVars,
                   auxVars>>

\* After the loop: count = collection_count(); return total.
IngestFinish ==
    /\ ipc = "loop"
    /\ ~InRange(start, total, iargs.bs)
    /\ \E r \in {collection_count(collections)} :
          /\ ilog' = Append(ilog, "collection_count")
          /\ ipc' = IF r.ok THEN "returned" ELSE "raised"
          /\ iret' = IF r.ok THEN [value |-> Some(total), error |-> ""]
                     ELSE [value |-> None, error |-> "StoreError"]
    /\ Loaded({"client"})
    /\ UNCHANGED <<iargs, records, total, start, ibatches, storeVars, loaderVars,
                   auxVars>>

NextIngest == IngestCall \/ IngestLoad \/ IngestEnsure \/ IngestBatch \/ IngestFinish

SpecIngest == InitIngest /\ [][NextIngest]_vars

IngestEnded == ipc \in {"returned", "raised"}

\* The input has a record without the text field.
HasMissing(file) ==
    /\ \E i \in DOMAIN file.rows : file.rows[i] = "missing"
    /\ (file.kind = "json" /\ file.is_list) \/ (file.kind = "csv" /\ file.has_column)

\* The input is a loadable file of valid records only.
AllValid(file) ==
    /\ \A i \in DOMAIN file.rows : file.rows[i] = "text"
    /\ (file.kind = "json" /\ file.is_list) \/ (file.kind = "csv" /\ file.has_column)

\* C9: when an input record lacks the text field, the run aborts with a
\* validation error before any encoder call, collection creation or store
\* write, and no record is skipped while the rest go on.
C9_MissingFieldAborts ==
    (IngestEnded /\ HasMissing(iargs.file))
        => /\ ipc = "raised"
           /\ iret.error = "ValueError"
           /\ ilog = <<"load_data">>
           /\ collections = iargs.before

\* C10: a run of ingest on N valid records completes with N more records in
\* the collection, one per input record, each with a dense and a sparse
\* vector and the record's payload, and returns the number written.
C10_IngestWritesAll ==
    (IngestEnded /\ AllValid(iargs.file)) =>
        LET old == Points(iargs.before)
            new == Points(collections)
            n   == Len(iargs.file.rows)
        IN  /\ ipc = "returned"
            /\ Len(new) = Len(old) + n
            /\ SubSeq(new, 1, Len(old)) = old
            /\ \A i \in (Len(old) + 1)..Len(new) :
                  DOMAIN new[i].vector = {"text", "bm25"}
            /\ iret.value = Some(Len(new) - Len(old))


\* The run failed inside the batch loop (encode or upsert of a batch).
FailedInBatch == ipc = "raised" /\ iret.error \notin {"ValueError", "StoreError"}

\* C11: when the encode or upsert step of a batch fails, the run stops at
\* that batch and the caller receives the number of records ingested in the
\* batches before it, not an error without progress information.
C11_PartialProgressReported ==
    FailedInBatch
        => /\ iret.value # None
           /\ iret.value = Some(start)

RECURSIVE Flatten(_)
Flatten(ss) == IF ss = <<>> THEN <<>> ELSE ss[1] \o Flatten(Tail(ss))

Occurrences(log, fn) == Cardinality({i \in DOMAIN log : log[i] = fn})

\* C16: for every record list and every batch_size argument (0, negative and
\* absent included), a run of ingest that returns has split the records, in
\* input order, into consecutive batches of at most the
\* effective batch size, each record in exactly one batch, with one
\* dense-encoder call and one upsert call per batch.
C16_BatchesPartition ==
    (ipc = "returned") =>
        /\ Flatten(ibatches) = records
        /\ \A j \in DOMAIN ibatches :
              Len(ibatches[j]) >= 1 /\ Len(ibatches[j]) <= iargs.bs
        /\ Occurrences(ilog, "encode") = Len(ibatches)
        /\ Occurrences(ilog, "upsert_batch") = Len(ibatches)

(***************************************************************************)
(* SpecEncode: encode_dense on every backend width around EMBEDDING_DIM.   *)
(***************************************************************************)
MaxTexts == 2         \* texts per encode_dense call (SpecEncode)

\* The native widths W of the backend: W < D, W = D and W > D.
NativeDims == {EMBEDDING_DIM - 1, EMBEDDING_DIM, EMBEDDING_DIM + 1}

InitEncode ==
    /\ native_dim \in NativeDims
    /\ lexical_ok = TRUE /\ cfg_mode = SEARCH_MODE /\ apc = "serving"
    /\ ScrollIdle /\ EncodeIdle
    /\ collections = <<>>
    /\ createdByCore = {}
    /\ client = 0 /\ dense_model = 0 /\ sparse_model = 0
    /\ constructed = [client |-> 0, dense |-> 0, sparse |-> 0]
    /\ issued = {}
    /\ use_tei \in BOOLEAN
    /\ last = NoRequest
    /\ LoaderIdle
    /\ IngestIdle

\* A caller passes a list of texts to encode_dense.
EncodeCall ==
    /\ epc \in {"idle", "returned"}
    /\ \E texts \in SeqsUpTo(Texts, MaxTexts) : etexts' = texts
    /\ epc' = "called"
    /\ eout' = <<>>
    /\ UNCHANGED <<collections, createdByCore, client, dense_model, sparse_model,
                   constructed, issued, use_tei, last, loaderVars, ingestVars,
                   envVars, scrollVars>>

\* encode_dense runs the backend, truncates when wider, and returns.
EncodeReturn ==
    /\ epc = "called"
    /\ eout' = encode_dense(etexts)
    /\ epc' = "returned"
    /\ Loaded(DenseGetters)
    /\ UNCHANGED <<collections, createdByCore, issued, use_tei, last, etexts,
                   loaderVars, ingestVars, envVars, scrollVars>>

NextEncode == EncodeCall \/ EncodeReturn

SpecEncode == InitEncode /\ [][NextEncode]_vars

\* C12: every dense vector encode_dense returns has length exactly
\* EMBEDDING_DIM, one per text, whatever the native width of the backend.
C12_DenseLengthExact ==
    (epc = "returned") =>
        /\ Len(eout) = Len(etexts)
        /\ \A i \in DOMAIN eout : Len(eout[i].num) = EMBEDDING_DIM

(***************************************************************************)
(* SpecApp: the service from startup (app.lifespan) to its first requests, *)
(* with a lexical model that may fail to load.                             *)
(***************************************************************************)
InitApp ==
    /\ native_dim = NativeDim
    /\ lexical_ok \in BOOLEAN
    /\ cfg_mode \in {"dense", "sparse"}
    /\ apc = "boot"
    /\ ScrollIdle /\ EncodeIdle
    /\ collections \in { <<>>, <<OtherCollection, SnapshotCollection(SnapshotPoints)>> }
    /\ createdByCore = {}
    /\ client = 0 /\ dense_model = 0 /\ sparse_model = 0
    /\ constructed = [client |-> 0, dense |-> 0, sparse |-> 0]
    /\ issued = {}
    /\ use_tei \in BOOLEAN
    /\ last = NoRequest
    /\ LoaderIdle
    /\ IngestIdle

\* lifespan: get_dense_model() unless USE_TEI, then get_sparse_model(), then
\* ensure_collection().  get_sparse_model re-raises when fastembed or the
\* model cannot be loaded; the exception leaves lifespan before the yield and
\* the application does not start.
Lifespan ==
    /\ apc = "boot"
    /\ IF lexical_ok
       THEN \E r \in {ensure_collection(collections)} :
               /\ collections' = r.colls
               /\ createdByCore' = IF r.created
                                   THEN createdByCore \cup {COLLECTION_NAME}
                                   ELSE createdByCore
               /\ Loaded(DenseGetters \cup {"sparse", "client"})
               /\ apc' = IF r.ok THEN "serving" ELSE "failed"
       ELSE /\ Loaded(DenseGetters)
            /\ apc' = "failed"
            /\ UNCHANGED <<collections, createdByCore>>
    /\ UNCHANGED <<native_dim, lexical_ok, cfg_mode, issued, use_tei, last,
                   loaderVars, ingestVars, scrollVars, encodeVars>>

AppModes == {None, Some("dense"), Some("sparse")}

\* A search request, served once the application has started.
AppSearch ==
    /\ apc = "serving"
    /\ \E query \in Texts, top_k \in {None, Some(1)}, mode \in AppModes :
          DoSearch(query, top_k, mode)

NextApp == Lifespan \/ AppSearch

SpecApp == InitApp /\ [][NextApp]_vars

\* C13: when the lexical model cannot be loaded the service still starts,
\* and every search whose mode is "dense" completes without a call of the
\* lexical encoder or of its getter.
C13_DenseOnlySurvives ==
    /\ (~lexical_ok /\ apc # "boot") => apc = "serving"
    /\ (last.op = "search" /\ OrStr(last.mode, cfg_mode) = "dense")
          => /\ last.ok
             /\ \A i \in DOMAIN last.calls : last.calls[i].fn # "encode_sparse"

(***************************************************************************)
(* SpecScroll: database_manager.get_all_points, page by page.              *)
(***************************************************************************)
ScrollMax == 201      \* records of the largest scrolled collection (SpecScroll)
PageLimit == 100      \* the page size cap of get_all_points
DEFAULT_LIMIT == 500  \* get_all_points(limit=500)

\* client.scroll(collection_name, limit, offset, with_vectors, with_payload):
\* up to `limit` points in id order from the point `offset` on, and the id
\* of the point after the page, or None when the page reaches the end.  The
\* store rejects an unknown collection and a limit below 1.
scroll(colls, name, limit, from) ==
    IF name \notin Names(colls) \/ limit < 1
    THEN [ok |-> FALSE, records |-> <<>>, next_offset |-> None]
    ELSE
    LET pts   == Collection(colls, name).points
        first == IF from = None THEN 1
                 ELSE Cardinality({i \in DOMAIN pts : pts[i].id < from[1]}) + 1
        lastp == Min(first + limit - 1, Len(pts))
    IN  [ok |-> TRUE,
         records |-> SubSeq(pts, first, lastp),
         next_offset |-> IF first + limit <= Len(pts)
                         THEN Some(pts[first + limit].id) ELSE None]

\* Always a full page, whatever is left of the limit.
PageSize_full(limit, got) == PageLimit

\* min(limit - len(all_points), 100)
PageSize(limit, got) == Min(limit - got, PageLimit)

\* {"id": str(r.id), "vector": vec.get("text", vec), "payload": r.payload}
PointDict(r) ==
    [id |-> Str(r.id),
     vector |-> IF "text" \in DOMAIN r.vector THEN r.vector["text"] ELSE r.vector,
     payload |-> r.payload]

ScrollSizes == {0, 1, PageLimit - 1, PageLimit, PageLimit + 1, 2 * PageLimit, ScrollMax}
ScrollLimits == {1, 2, PageLimit - 1, PageLimit, PageLimit + 1, 2 * PageLimit,
                 2 * PageLimit + 1, 2 * PageLimit + 2, DEFAULT_LIMIT}

InitScroll ==
    /\ EnvDefault /\ ScrollIdle /\ EncodeIdle
    /\ \E n \in ScrollSizes : collections = <<OtherCollection, SnapshotCollection(n)>>
    /\ createdByCore = {}
    /\ client = 0 /\ dense_model = 0 /\ sparse_model = 0
    /\ constructed = [client |-> 0, dense |-> 0, sparse |-> 0]
    /\ issued = {}
    /\ use_tei = FALSE
    /\ last = NoRequest
    /\ LoaderIdle
    /\ IngestIdle

\* get_all_points(limit): client, all_points = [], offset = None.
GetAllPoints(limit) ==
    /\ spc \in {"idle", "returned", "raised"}
    /\ spc' = "loop"
    /\ sargs' = [limit |-> limit, pages |-> <<>>]
    /\ all_points' = <<>>
    /\ offset' = None
    /\ Loaded({"client"})
    /\ UNCHANGED <<collections, createdByCore, issued, use_tei, last,
                   loaderVars, ingestVars, envVars, encodeVars>>

ScrollCall == \E limit \in ScrollLimits : GetAllPoints(limit)

\* One turn of `while True`: a scroll request, the records appended, then
\* the break test.
ScrollPage ==
    /\ spc = "loop"
    /\ \E size \in {PageSize(sargs.limit, Len(all_points))} :
       \E r \in {scroll(collections, COLLECTION_NAME, size, offset)} :
         IF ~r.ok
         THEN /\ spc' = "raised"
              /\ UNCHANGED <<sargs, all_points, offset>>
         ELSE \E got \in {all_points \o [i \in DOMAIN r.records |-> PointDict(r.records[i])]} :
              /\ all_points' = got
              /\ sargs' = [sargs EXCEPT !.pages =
                              Append(@, [limit |-> size, offset |-> offset,
                                         next_offset |-> r.next_offset,
                                         collected |-> Len(got)])]
              /\ IF r.next_offset = None \/ Len(got) >= sargs.limit
                 THEN spc' = "returned" /\ offset' = offset
                 ELSE spc' = "loop" /\ offset' = r.next_offset
    /\ UNCHANGED <<collections, createdByCore, client, dense_model, sparse_model,
                   constructed, issued, use_tei, last, loaderVars, ingestVars,
                   envVars, encodeVars>>

NextScroll == ScrollCall \/ ScrollPage

\* The loop is sequential code: a turn that can run does run.
SpecScroll == InitScroll /\ [][NextScroll]_vars /\ WF_vars(ScrollPage)

StoredPoints == Collection(collections, COLLECTION_NAME).points

\* The requests of a call of get_all_points and what it returned.
ScrollPagesRight ==
    LET P == sargs.pages
    IN  /\ \A k \in DOMAIN P :
              /\ P[k].limit >= 1 /\ P[k].limit <= PageLimit
              /\ P[k].offset = IF k = 1 THEN None ELSE P[k - 1].next_offset
              /\ k < Len(P) => P[k].next_offset # None /\ P[k].collected < sargs.limit
        /\ (spc = "loop" /\ P # <<>>)
              => P[Len(P)].next_offset # None /\ P[Len(P)].collected < sargs.limit
        /\ spc # "raised"
        /\ spc = "returned" =>
              /\ P # <<>>
              /\ P[Len(P)].next_offset = None \/ P[Len(P)].collected >= sargs.limit
              /\ Len(all_points) = Min(sargs.limit, Len(StoredPoints))
              /\ \A i \in DOMAIN all_points : all_points[i] = PointDict(StoredPoints[i])
              /\ \A i, j \in DOMAIN all_points :
                    all_points[i].id = all_points[j].id => i = j

\* C14: for a collection of N records and a limit >= 1, get_all_points
\* terminates and returns exactly min(limit, N) records, each once, asking
\* for at most 100 records per page, passing back the cursor of the previous
\* page, and stopping as soon as the store returns no cursor or limit records
\* are collected.
C14_ScrollTerminatesExact ==
    /\ []ScrollPagesRight
    /\ (spc = "loop") ~> (spc = "returned")

\* A call that needed a second page and stopped at the limit with records left.
C14_Witness ==
    /\ spc = "returned"
    /\ Len(sargs.pages) >= 2
    /\ Len(all_points) = sargs.limit
    /\ sargs.limit < Len(StoredPoints)

(***************************************************************************)
(* SpecCore: the operations of the core in any order, the pages of         *)
(* get_all_points interleaved with the other requests.                     *)
(***************************************************************************)
InitCore ==
    /\ EnvDefault /\ ScrollIdle /\ EncodeIdle
    /\ collections \in { <<>>, <<OtherCollection, SnapshotCollection(SnapshotPoints)>> }
    /\ createdByCore = {}
    /\ client = 0 /\ dense_model = 0 /\ sparse_model = 0
    /\ constructed = [client |-> 0, dense |-> 0, sparse |-> 0]
    /\ issued = {}
    /\ use_tei = FALSE
    /\ last = NoRequest
    /\ LoaderIdle
    /\ IngestIdle

\* GET /health: collection_count().
Health ==
    \E r \in {collection_count(collections)} :
        /\ last' = [NoRequest EXCEPT !.op = "health", !.ok = r.ok, !.count = r.count,
                                     !.before = collections]
        /\ Loaded({"client"})
        /\ UNCHANGED <<collections, createdByCore, issued, use_tei,
                       loaderVars, ingestVars, auxVars>>

CoreSearch ==
    \E query \in Texts, mode \in {Some("dense"), Some("sparse")} :
        DoSearch(query, None, mode)

\* GET /points: get_all_points() with its default limit.
GetPoints == GetAllPoints(DEFAULT_LIMIT)

NextCore ==
    EnsureCollection \/ CoreSearch \/ AddDocument \/ Health \/ GetPoints \/ ScrollPage

SpecCore == InitCore /\ [][NextCore]_vars

\* Every collection of the store is still there, and every point of it is
\* still there with the same id, vectors and payload.
PointsPreserved ==
    \A i \in DOMAIN collections :
        \E j \in DOMAIN collections' :
            /\ collections'[j].name = collections[i].name
            /\ \A m \in DOMAIN collections[i].points :
                  \E n \in DOMAIN collections'[j].points :
                      collections'[j].points[n] = collections[i].points[m]

\* The step is a search, a health request, or a step of get_all_points.
ReadStep ==
    \/ last'.op \in {"search", "health"} /\ last' # last
    \/ spc' # spc \/ sargs' # sargs \/ all_points' # all_points \/ offset' # offset

\* C15: over any sequence of search, add_document, get_all_points, health and
\* ensure_collection, no record disappears and no existing id changes its
\* vectors or payload; search, get_all_points and collection_count leave the
\* store as it is.
C15_NeverMutates ==
    [][ /\ PointsPreserved
        /\ ReadStep => collections' = collections ]_vars

\* Documents were added to the restored collection, get_all_points returned
\* them all, and a search followed.
C15_Witness ==
    /\ spc = "returned"
    /\ Len(all_points) > SnapshotPoints
    /\ last.op = "search" /\ last.ok
    /\ Len(Points(collections)) > Len(all_points)

(***************************************************************************)
(* SpecMode: search under every configured and requested mode string.      *)
(***************************************************************************)
\* config.SEARCH_MODE: 'dense', 'sparse', or 'hybrid'.
ConfiguredModes == {"dense", "sparse", "hybrid"}

\* SearchRequest.mode: any string, or absent.
RequestedModes ==
    {None, Some(""), Some("dense"), Some("sparse"), Some("hybrid"),
     Some("SPARSE"), Some("Dense"), Some("bm25")}

InitMode ==
    /\ native_dim = NativeDim /\ lexical_ok = TRUE /\ apc = "serving"
    /\ cfg_mode \in ConfiguredModes
    /\ ScrollIdle /\ EncodeIdle
    /\ collections = <<OtherCollection, SnapshotCollection(SnapshotPoints)>>
    /\ createdByCore = {}
    /\ client = 0 /\ dense_model = 0 /\ sparse_model = 0
    /\ constructed = [client |-> 0, dense |-> 0, sparse |-> 0]
    /\ issued = {}
    /\ use_tei \in BOOLEAN
    /\ last = NoRequest
    /\ LoaderIdle
    /\ IngestIdle

ModeSearch ==
    \E query \in Texts, top_k \in {None, Some(1)}, mode \in RequestedModes :
        DoSearch(query, top_k, mode)

NextMode == ModeSearch

SpecMode == InitMode /\ [][NextMode]_vars

\* The outcome of the same request with mode "dense".
AsDense == search(last.before, last.text, last.top_k, Some("dense"))

\* C17: search rejects no mode value; whenever the effective mode (requested,
\* or configured when absent or empty) is any string other than "sparse",
\* "hybrid" included, the request runs the dense path only and its outcome is
\* that of the same request with mode "dense".
C17_NonSparseIsDense ==
    (last.op = "search" /\ OrStr(last.mode, cfg_mode) # "sparse") =>
        /\ last.ok
        /\ [i \in DOMAIN last.calls |-> last.calls[i].fn]
              = <<"encode_dense", "query_points">>
        /\ last.calls[2].using = "text"
        /\ last.vec = encode_dense(<<last.text>>)[1]
        /\ last.results = AsDense.results
        /\ last.hits = AsDense.hits
        /\ last.calls = AsDense.calls

\* A search with mode "hybrid", requested or configured, returned results.
C17_Witness ==
    /\ last.op = "search" /\ last.ok
    /\ last.results # <<>>
    /\ \/ last.mode = Some("hybrid")
       \/ last.mode \in {None, Some("")} /\ cfg_mode = "hybrid"

=============================================================================
